---- MODULE Spec2Model ----
(***************************************************************************)
(* Equihash solution verification entry points of libmultihash             *)
(* (src/Native/libmultihash/equi/equihashverify.cc): verifyEH_96_5,        *)
(* verifyEH_200_9, verifyEH_144_5 and verifyEH_192_7.                      *)
(*                                                                         *)
(* Each entry point is modelled statement by statement so that calls of    *)
(* several threads interleave.  The hash primitive (EhInitialiseState,     *)
(* crypto_generichash_blake2b_update) and the structural verifier          *)
(* (Equihash<N,K>::IsValidSolution) are defined in crypto/equihash.cpp;    *)
(* they are modelled from sections 3, 4.3 and 6 of the specification.      *)
(***************************************************************************)
EXTENDS Integers, Sequences, FiniteSets, TLC

VARIABLES
    default_personalization,       \* global, equihashverify.cc line 5
    default_personalization_zero,  \* global, equihashverify.cc line 6
    oracle,        \* the digest family the hash primitive realises
    workload,      \* which callers run: one sequential caller or several threads
    pc,            \* per thread: position inside verifyEH_*
    arg,           \* per thread: the arguments of the running call
    frame,         \* per thread: the locals n, k, personalization, isValid
    hstate,        \* memory holding each call's crypto_generichash_blake2b_state
    trace,         \* per thread: hash-primitive invocations of the running call
    result         \* per thread: the value returned by the last finished call

vars == <<default_personalization, default_personalization_zero, oracle, workload,
          pc, arg, frame, hstate, trace, result>>

----------------------------------------------------------------------------
(* Bounds of the model.                                                    *)

\* number of concurrently calling threads in the concurrent workload
NThreads == 2
\* number of buckets the digest family distinguishes hash states by
OracleKeys == 2
\* number of bytes appended to / cut from a well-sized blob to get a wrong size
MaxSkew == 1
\* number of leading nodes per tree level whose siblings the callers exchange
MaxSwapPos == 2

----------------------------------------------------------------------------
(* Program constants.                                                      *)

HeaderBytesShort == 140 - 1

\* crypto_generichash_blake2b_update(&state, hdr, 140)
HeaderBytes == 140

\* "ZcashPoW" and "ZERO_PoW" as the eight bytes the C string literals hold
ZcashPoW == <<90, 99, 97, 115, 104, 80, 111, 87>>
ZERO_PoW == <<90, 69, 82, 79, 95, 80, 111, 87>>
\* the null pointer passed for "no override"
NULL == <<>>

Variants == {"EH_96_5", "EH_200_9", "EH_144_5", "EH_192_7"}

\* unsigned int n = ...;
ParamN(v) ==
    CASE v = "EH_96_5"  -> 96
      [] v = "EH_200_9" -> 200
      [] v = "EH_144_5" -> 144
      [] v = "EH_192_7" -> 192

\* unsigned int k = ...;
ParamK(v) ==
    CASE v = "EH_96_5"  -> 5
      [] v = "EH_200_9" -> 9
      [] v = "EH_144_5" -> 5
      [] v = "EH_192_7" -> 7

RequiredSizeCopied(v) ==
    CASE v = "EH_96_5"  -> 68
      [] v = "EH_200_9" -> 1344
      [] v = "EH_144_5" -> 68
      [] v = "EH_192_7" -> 400

\* the literal in  if (soln.size() != ...)
RequiredSize(v) ==
    CASE v = "EH_96_5"  -> 68
      [] v = "EH_200_9" -> 1344
      [] v = "EH_144_5" -> 100
      [] v = "EH_192_7" -> 400

SizeOkSkipped(v, soln) == TRUE

\* the negation of the guard  soln.size() != <required>
SizeOk(v, soln) == Len(soln) = RequiredSize(v)

DefaultPersonalizationSame(v, dp, dpz) == dp

\* the global each variant assigns when personalization == NULL
DefaultPersonalization(v, dp, dpz) ==
    IF v = "EH_192_7" THEN dpz ELSE dp

ChoosePersonalizationIgnoring(v, p, dp, dpz) == DefaultPersonalization(v, dp, dpz)

\* if (personalization == NULL) personalization = default_personalization...;
ChoosePersonalization(v, p, dp, dpz) ==
    IF p = NULL THEN DefaultPersonalization(v, dp, dpz) ELSE p

ReturnValueNegated(isValid) == ~isValid

ReturnValueAccept(isValid) == TRUE

\* return isValid;
ReturnValue(isValid) == isValid

StateAddrShared(t) == 1

\* crypto_generichash_blake2b_state state;  -- a local of the call of thread t
StateAddr(t) == t

----------------------------------------------------------------------------
(* The hash primitive (modelled from the specification, sections 3 and 6). *)

Pow2(e) == 2 ^ e

Min(a, b) == IF a < b THEN a ELSE b

\* little-endian 32-bit encoding, as mixed into the personalization block
LE32(x) == <<x % 256, (x \div 256) % 256, (x \div 65536) % 256, (x \div 16777216) % 256>>

Uninit == [init |-> FALSE, n |-> 0, k |-> 0, personal |-> <<>>, data |-> <<>>]

\* init(outputConfig, personalization) -> state
EhInitialiseState(n, k, personalization) ==
    [init |-> TRUE, n |-> n, k |-> k,
     personal |-> SubSeq(personalization, 1, 8) \o LE32(n) \o LE32(k),
     data |-> <<>>]

\* update(state, bytes): absorbs the first len bytes
HashUpdate(st, bytes, len) == [st EXCEPT !.data = @ \o SubSeq(bytes, 1, len)]

\* a position-weighted checksum of the bytes s[lo..hi]
RECURSIVE WeightedSum(_, _, _)
WeightedSum(s, lo, hi) ==
    IF lo > hi THEN 0
    ELSE IF lo = hi THEN (lo * s[lo]) % 251
    ELSE LET mid == (lo + hi) \div 2
         IN  (WeightedSum(s, lo, mid) + WeightedSum(s, mid + 1, hi)) % 251

\* the bucket of the digest family a hash state falls into
OracleKey(st) ==
    (WeightedSum(st.personal, 1, Len(st.personal))
       + 7 * WeightedSum(st.data, 1, Len(st.data)) + Len(st.data)) % OracleKeys

\* the digest families: "wagner" makes runs of 2^K consecutive aligned indices
\* collide level by level down to an all-zero root, "rootfail" does the same
\* except that the last chunk of the root stays non-zero, "zero" maps every
\* index to the all-zero digest
DigestModes == {"wagner", "rootfail", "zero"}

\* bits of one collision chunk: N / (K + 1)
CollisionBitLength(n, k) == n \div (k + 1)

\* the digest of leaf index v in the given mode: K+1 chunks of N/(K+1) bits
Digest(n, k, mode, v) ==
    [j \in 1..(k + 1) |->
        CASE mode = "zero" -> 0
          [] mode = "wagner" ->
                IF v % Pow2(Min(j, k) - 1) = 0
                THEN Pow2(CollisionBitLength(n, k)) - j ELSE 0
          [] mode = "rootfail" ->
                IF v % Pow2(j - 1) = 0
                THEN Pow2(CollisionBitLength(n, k)) - j ELSE 0]

RECURSIVE Xor(_, _)
Xor(a, b) ==
    IF a = 0 THEN b
    ELSE IF b = 0 THEN a
    ELSE ((a + b) % 2) + 2 * Xor(a \div 2, b \div 2)

----------------------------------------------------------------------------
(* Solution blobs: bit-packed indices (specification, section 3).          *)

\* bits per index: N / (K + 1) + 1
IndexBits(n, k) == n \div (k + 1) + 1

\* the value of the len bits of blob that start at bit p (0-based, MSB first)
RECURSIVE Window(_, _, _)
Window(blob, p, len) ==
    IF len = 0 THEN 0
    ELSE LET off   == p % 8
             take  == Min(8 - off, len)
             piece == (blob[p \div 8 + 1] % Pow2(8 - off)) \div Pow2(8 - off - take)
         IN  piece * Pow2(len - take) + Window(blob, p + take, len - take)

\* decode a blob into count indices of bits bits each
GetIndicesFromMinimal(blob, bits, count) ==
    SubSeq([i \in 1..count |-> Window(blob, (i - 1) * bits, bits)], 1, count)

\* byte j (1-based) of the packed stream of idx: the eight bits that start at
\* bit 8 * (j - 1), taken from one index or from the end of one and the start
\* of the next
PackedByte(idx, bits, j) ==
    LET p     == 8 * (j - 1)
        a     == p \div bits + 1
        avail == bits - (p % bits)
    IN  IF avail >= 8
        THEN (idx[a] \div Pow2(avail - 8)) % 256
        ELSE (idx[a] % Pow2(avail)) * Pow2(8 - avail)
               + idx[a + 1] \div Pow2(bits - (8 - avail))

\* pack indices into a blob
GetMinimalFromIndices(idx, bits) ==
    LET size == (Len(idx) * bits) \div 8
    IN  SubSeq([j \in 1..size |-> PackedByte(idx, bits, j)], 1, size)

----------------------------------------------------------------------------
(* The recursive structural verifier (specification, section 4.3).         *)

\* chunk j of the XOR of the digests of the leaves below the node at level l,
\* position p (0-based); level 0 are the leaves
RECURSIVE GroupXor(_, _, _, _, _, _, _)
GroupXor(n, k, mode, idx, l, p, j) ==
    IF l = 0 THEN Digest(n, k, mode, idx[p + 1])[j]
    ELSE Xor(GroupXor(n, k, mode, idx, l - 1, 2 * p, j),
             GroupXor(n, k, mode, idx, l - 1, 2 * p + 1, j))

\* smallest index below the node at level l, position p
RECURSIVE GroupMin(_, _, _)
GroupMin(idx, l, p) ==
    IF l = 0 THEN idx[p + 1]
    ELSE Min(GroupMin(idx, l - 1, 2 * p), GroupMin(idx, l - 1, 2 * p + 1))

\* (b) canonical ordering at every internal node
OrderedGroups(idx, k) ==
    \A l \in 1..k : \A p \in 0..(Pow2(k - l) - 1) :
        GroupMin(idx, l - 1, 2 * p) < GroupMin(idx, l - 1, 2 * p + 1)

\* (c) no index value repeats in the leaf set
DistinctIndices(idx) == Cardinality({idx[i] : i \in 1..Len(idx)}) = Len(idx)

\* (a) the sibling groups under a level-l node collide on chunk l, so that the
\* XOR of the leaves below it is zero in its first l chunks
CollisionsCascade(n, k, mode, idx) ==
    \A l \in 1..k : \A p \in 0..(Pow2(k - l) - 1) :
        GroupXor(n, k, mode, idx, l, p, l) = 0

\* the root XOR is zero in all N bits
RootIsZero(n, k, mode, idx) ==
    \A j \in 1..(k + 1) : GroupXor(n, k, mode, idx, k, 0, j) = 0

\* Equihash<N,K>::IsValidSolution(state, soln)
IsValidSolution(n, k, st, orc, soln) ==
    \A idx \in {GetIndicesFromMinimal(soln, IndexBits(n, k), Pow2(k))} :
    \A mode \in {orc[OracleKey(st)]} :
        /\ DistinctIndices(idx)
        /\ OrderedGroups(idx, k)
        /\ CollisionsCascade(n, k, mode, idx)
        /\ RootIsZero(n, k, mode, idx)

\* bytes of a packed solution: 2^K indices of IndexBits bits each
SolutionWidth(n, k) == (Pow2(k) * IndexBits(n, k)) \div 8

\* what a call of IsValidSolution can return: its value on an initialised state
\* and a blob of SolutionWidth bytes; otherwise it reads indeterminate or
\* out-of-bounds bytes and any outcome is possible
VerifierOutcomes(n, k, st, orc, soln) ==
    IF st.init /\ Len(soln) = SolutionWidth(n, k)
    THEN {IsValidSolution(n, k, st, orc, soln)}
    ELSE BOOLEAN

----------------------------------------------------------------------------
(* Inputs the callers draw from.                                           *)

Zeros(len) == [i \in 1..len |-> 0]

\* the 2^k consecutive indices off, off+1, ...
BaseIdx(k, off) == [i \in 1..Pow2(k) |-> off + i - 1]

\* idx with the two sibling groups under the node (level l, position p) exchanged
SwapSiblings(idx, l, p) ==
    LET h  == Pow2(l - 1)
        lo == p * 2 * h
    IN  [i \in 1..Len(idx) |->
            IF i > lo /\ i <= lo + h THEN idx[i + h]
            ELSE IF i > lo + h /\ i <= lo + 2 * h THEN idx[i - h]
            ELSE idx[i]]

\* idx with the index at position j overwritten by the one at position i
Overwrite(idx, i, j) == [idx EXCEPT ![j] = idx[i]]

\* the internal nodes whose siblings the callers exchange: at every level the
\* first MaxSwapPos nodes and the last one
SwapNodes(k) ==
    {<<l, p>> \in (1..k) \X (0..(Pow2(k - 1) - 1)) :
        /\ p < Pow2(k - l)
        /\ p < MaxSwapPos \/ p = Pow2(k - l) - 1}

Pack(v, idx) == GetMinimalFromIndices(idx, IndexBits(ParamN(v), ParamK(v)))

Unpack(v, blob) ==
    GetIndicesFromMinimal(blob, IndexBits(ParamN(v), ParamK(v)), Pow2(ParamK(v)))

\* the blob with the siblings under a node exchanged
SwapBlob(v, blob, node) == Pack(v, SwapSiblings(Unpack(v, blob), node[1], node[2]))

\* the blob with index j overwritten by index i
OverwriteBlob(v, blob, i, j) == Pack(v, Overwrite(Unpack(v, blob), i, j))

\* the highest offset that keeps 2^k consecutive indices within IndexBits bits
TopOffset(v) == Pow2(IndexBits(ParamN(v), ParamK(v))) - Pow2(ParamK(v))

\* blobs of the required size of variant v
Fixtures(v) ==
    LET lowB  == Pack(v, BaseIdx(ParamK(v), 0))
        highB == Pack(v, BaseIdx(ParamK(v), TopOffset(v)))
    IN  {lowB, highB, Zeros(RequiredSize(v)),
         OverwriteBlob(v, lowB, 4, 2), OverwriteBlob(v, lowB, 2, 4),
         OverwriteBlob(v, highB, Pow2(ParamK(v)), Pow2(ParamK(v)) - 2)}
        \cup {SwapBlob(v, lowB, node) : node \in SwapNodes(ParamK(v))}

\* blobs of a wrong size for variant v
Missized(v) ==
    LET lowB == Pack(v, BaseIdx(ParamK(v), 0))
    IN  {SubSeq(lowB, 1, Len(lowB) - d) : d \in 1..MaxSkew}
        \cup {lowB \o Zeros(d) : d \in 1..MaxSkew}

SeqBlobs == UNION {Fixtures(v) \cup Missized(v) : v \in Variants} \cup {<<>>}

\* a caller's 140-byte header
Hdr0 == Zeros(140)
\* a caller's buffer that differs from Hdr0 in its 140th byte and continues past it
Hdr1 == [i \in 1..141 |-> IF i = 140 THEN 1 ELSE IF i = 141 THEN 255 ELSE 0]

SeqInputs ==
    [variant : Variants, hdr : {Hdr0, Hdr1}, soln : SeqBlobs,
     personalization : {NULL, ZcashPoW, ZERO_PoW}]

ConcInputs ==
    LET a == Pack("EH_96_5", BaseIdx(5, 0))
        b == Pack("EH_144_5", BaseIdx(5, 0))
    IN  {[variant |-> "EH_96_5",  hdr |-> Hdr0, soln |-> a, personalization |-> NULL],
         [variant |-> "EH_144_5", hdr |-> Hdr1, soln |-> b, personalization |-> ZERO_PoW],
         [variant |-> "EH_144_5", hdr |-> Hdr0, soln |-> a, personalization |-> NULL],
         [variant |-> "EH_192_7", hdr |-> Hdr0, soln |-> a, personalization |-> ZcashPoW],
         [variant |-> "EH_200_9", hdr |-> Hdr1, soln |-> b, personalization |-> NULL]}

Inputs(w) == IF w = "seq" THEN SeqInputs ELSE ConcInputs

----------------------------------------------------------------------------
(* The state machine: verifyEH_<N>_<K>(hdr, soln, personalization).        *)

Threads == DOMAIN pc

IdleArg == [variant |-> "none", hdr |-> <<>>, soln |-> <<>>, personalization |-> NULL]

IdleFrame == [n |-> 0, k |-> 0, personalization |-> NULL, isValid |-> FALSE]

TraceInit(n, k, personalization) ==
    [op |-> "init", n |-> n, k |-> k, data |-> personalization]

TraceUpdate(bytes, len) ==
    [op |-> "update", n |-> len, k |-> 0, data |-> SubSeq(bytes, 1, len)]

TraceVerify(soln) == [op |-> "verify", n |-> 0, k |-> 0, data |-> soln]

ThreadsOf(w) == IF w = "seq" THEN {1} ELSE 1..NThreads

InitWith(w, oracles) ==
    /\ default_personalization = ZcashPoW
    /\ default_personalization_zero = ZERO_PoW
    /\ oracle \in oracles
    /\ workload = w
    /\ pc = [t \in ThreadsOf(w) |-> "idle"]
    /\ arg = [t \in ThreadsOf(w) |-> IdleArg]
    /\ frame = [t \in ThreadsOf(w) |-> IdleFrame]
    /\ hstate = [a \in ThreadsOf(w) |-> Uninit]
    /\ trace = [t \in ThreadsOf(w) |-> <<>>]
    /\ result = [t \in ThreadsOf(w) |-> FALSE]

\* the digest families that use one of modes for the hash states of bucket 0
\* and "wagner" for all others
Oracles(modes) ==
    {[x \in 0..(OracleKeys - 1) |-> IF x = 0 THEN m ELSE "wagner"] : m \in modes}

Init == InitWith("seq", Oracles(DigestModes))

InitConc == InitWith("conc", Oracles({"wagner", "rootfail"}))

Globals == <<default_personalization, default_personalization_zero, oracle, workload>>

\* entry: the caller passes (hdr, soln, personalization); n and k are assigned
Call(t) ==
    /\ pc[t] = "idle"
    /\ \E in \in Inputs(workload) :
        /\ arg' = [arg EXCEPT ![t] = in]
        /\ frame' = [frame EXCEPT ![t] =
                        [n |-> ParamN(in.variant), k |-> ParamK(in.variant),
                         personalization |-> in.personalization, isValid |-> FALSE]]
    /\ pc' = [pc EXCEPT ![t] = "size"]
    /\ trace' = [trace EXCEPT ![t] = <<>>]
    /\ UNCHANGED <<Globals, hstate, result>>

\* if (soln.size() != <required>) return false;
CheckSize(t) ==
    /\ pc[t] = "size"
    /\ IF SizeOk(arg[t].variant, arg[t].soln)
       THEN /\ pc' = [pc EXCEPT ![t] = "pers"]
            /\ UNCHANGED result
       ELSE /\ pc' = [pc EXCEPT ![t] = "done"]
            /\ result' = [result EXCEPT ![t] = FALSE]
    /\ UNCHANGED <<Globals, arg, frame, hstate, trace>>

\* if (personalization == NULL) personalization = <default>;
SetPersonalization(t) ==
    /\ pc[t] = "pers"
    /\ frame' = [frame EXCEPT ![t].personalization =
                    ChoosePersonalization(arg[t].variant, @, default_personalization,
                                          default_personalization_zero)]
    /\ pc' = [pc EXCEPT ![t] = "init"]
    /\ UNCHANGED <<Globals, arg, hstate, trace, result>>

\* crypto_generichash_blake2b_state state; EhInitialiseState(n, k, state, personalization);
InitialiseState(t) ==
    /\ pc[t] = "init"
    /\ hstate' = [hstate EXCEPT ![StateAddr(t)] =
                    EhInitialiseState(frame[t].n, frame[t].k, frame[t].personalization)]
    /\ trace' = [trace EXCEPT ![t] =
                    Append(@, TraceInit(frame[t].n, frame[t].k, frame[t].personalization))]
    /\ pc' = [pc EXCEPT ![t] = "update"]
    /\ UNCHANGED <<Globals, arg, frame, result>>

\* crypto_generichash_blake2b_update(&state, (const unsigned char*)hdr, 140);
UpdateState(t) ==
    /\ pc[t] = "update"
    /\ hstate' = [hstate EXCEPT ![StateAddr(t)] = HashUpdate(@, arg[t].hdr, HeaderBytes)]
    /\ trace' = [trace EXCEPT ![t] = Append(@, TraceUpdate(arg[t].hdr, HeaderBytes))]
    /\ pc' = [pc EXCEPT ![t] = "verify"]
    /\ UNCHANGED <<Globals, arg, frame, result>>

\* bool isValid = Eh<N>_<K>.IsValidSolution(state, soln);
Verify(t) ==
    /\ pc[t] = "verify"
    /\ \E b \in VerifierOutcomes(frame[t].n, frame[t].k, hstate[StateAddr(t)],
                                  oracle, arg[t].soln) :
            frame' = [frame EXCEPT ![t].isValid = b]
    /\ trace' = [trace EXCEPT ![t] = Append(@, TraceVerify(arg[t].soln))]
    /\ pc' = [pc EXCEPT ![t] = "ret"]
    /\ UNCHANGED <<Globals, arg, hstate, result>>

\* return isValid;  -- the local hash state goes out of scope
Return(t) ==
    /\ pc[t] = "ret"
    /\ result' = [result EXCEPT ![t] = ReturnValue(frame[t].isValid)]
    /\ hstate' = [hstate EXCEPT ![StateAddr(t)] = Uninit]
    /\ pc' = [pc EXCEPT ![t] = "done"]
    /\ UNCHANGED <<Globals, arg, frame, trace>>

\* the caller has consumed the result and may call again
Collect(t) ==
    /\ pc[t] = "done"
    /\ pc' = [pc EXCEPT ![t] = "idle"]
    /\ arg' = [arg EXCEPT ![t] = IdleArg]
    /\ frame' = [frame EXCEPT ![t] = IdleFrame]
    /\ trace' = [trace EXCEPT ![t] = <<>>]
    /\ result' = [result EXCEPT ![t] = FALSE]
    /\ UNCHANGED <<Globals, hstate>>

Next ==
    \E t \in Threads :
        \/ Call(t)
        \/ CheckSize(t)
        \/ SetPersonalization(t)
        \/ InitialiseState(t)
        \/ UpdateState(t)
        \/ Verify(t)
        \/ Return(t)
        \/ Collect(t)

Spec == Init /\ [][Next]_vars

SpecConc == InitConc /\ [][Next]_vars

----------------------------------------------------------------------------
(* The documented parameter table (specification, section 6) and the       *)
(* expectations the properties below are stated against.                   *)

TableN(v) == CASE v = "EH_96_5" -> 96 [] v = "EH_144_5" -> 144
               [] v = "EH_192_7" -> 192 [] v = "EH_200_9" -> 200

TableK(v) == CASE v = "EH_96_5" -> 5 [] v = "EH_144_5" -> 5
               [] v = "EH_192_7" -> 7 [] v = "EH_200_9" -> 9

TableBytes(v) == CASE v = "EH_96_5" -> 68 [] v = "EH_144_5" -> 100
                   [] v = "EH_192_7" -> 400 [] v = "EH_200_9" -> 1344

TableDefault(v) == IF v = "EH_192_7" THEN ZERO_PoW ELSE ZcashPoW

\* 2^K * (N/(K+1) + 1), the bit count of a packed solution
DerivedBits(n, k) == Pow2(k) * (n \div (k + 1) + 1)

\* the personalization a call with arguments a is documented to use
ExpectedPersonalization(a) ==
    IF a.personalization = NULL THEN TableDefault(a.variant) ELSE a.personalization

\* the hash state a call with arguments a is documented to hand to the verifier
ExpectedState(a) ==
    [init |-> TRUE, n |-> TableN(a.variant), k |-> TableK(a.variant),
     personal |-> ExpectedPersonalization(a) \o LE32(TableN(a.variant))
                    \o LE32(TableK(a.variant)),
     data |-> SubSeq(a.hdr, 1, 140)]

\* the hash-primitive invocations a call that passes the size check makes
ExpectedTrace(a) ==
    << [op |-> "init", n |-> TableN(a.variant), k |-> TableK(a.variant),
        data |-> ExpectedPersonalization(a)],
       [op |-> "update", n |-> 140, k |-> 0, data |-> SubSeq(a.hdr, 1, 140)],
       [op |-> "verify", n |-> 0, k |-> 0, data |-> a.soln] >>

\* the outcomes of one call of verifyEH_<variant> run on its own, start to end
VerifyAlone(a, orc, dp, dpz) ==
    IF ~SizeOk(a.variant, a.soln) THEN {FALSE}
    ELSE {ReturnValue(b) :
            b \in VerifierOutcomes(ParamN(a.variant), ParamK(a.variant),
                    HashUpdate(EhInitialiseState(ParamN(a.variant), ParamK(a.variant),
                                   ChoosePersonalization(a.variant, a.personalization,
                                                         dp, dpz)),
                               a.hdr, HeaderBytes),
                    orc, a.soln)}

Running(t) == pc[t] # "idle"

Finished(t) == pc[t] = "done"

PassedSizeCheck(t) == pc[t] \in {"pers", "init", "update", "verify", "ret"}
                        \/ (pc[t] = "done" /\ trace[t] # <<>>)

LowBlob(v) == Pack(v, BaseIdx(ParamK(v), 0))

----------------------------------------------------------------------------
(* Properties.                                                             *)

\* C1: a call whose solution length differs from the variant's required length
\* (68, 100, 400, 1344) returns false and never invokes the hash primitive: no
\* initialisation, no update and no verifier call happen at any point of it.
C1_WrongSizeRejectedWithoutHashing ==
    \A t \in Threads :
        (Running(t) /\ Len(arg[t].soln) # TableBytes(arg[t].variant)) =>
            /\ pc[t] \in {"size", "done"}
            /\ trace[t] = <<>>
            /\ hstate[t] = Uninit
            /\ Finished(t) => result[t] = FALSE

C1_Witness ==
    \E t \in Threads :
        /\ Finished(t)
        /\ arg[t].variant = "EH_192_7"
        /\ Len(arg[t].soln) = 68
        /\ result[t] = FALSE
        /\ trace[t] = <<>>

\* C2: verify returns true iff the solution length equals the variant's required
\* length and the structural verifier, given the hash state prepared for this
\* call and the solution, returns true; with the right length the verifier's
\* boolean is returned unchanged.
C2_ResultIsVerifierVerdict ==
    \A t \in Threads :
        Finished(t) =>
            /\ result[t] =
                  (/\ Len(arg[t].soln) = TableBytes(arg[t].variant)
                   /\ IsValidSolution(TableN(arg[t].variant), TableK(arg[t].variant),
                                      ExpectedState(arg[t]), oracle, arg[t].soln))
            /\ Len(arg[t].soln) = TableBytes(arg[t].variant) =>
                  result[t] = frame[t].isValid

C2_Witness ==
    \E t \in Threads :
        /\ Finished(t)
        /\ result[t] = TRUE
        /\ frame[t].isValid = TRUE
        /\ Len(arg[t].soln) = TableBytes(arg[t].variant)

\* C3: the hash state is configured with the caller's override when one is
\* supplied and otherwise with the variant's default, "ZcashPoW" for (96,5),
\* (144,5), (200,9) and "ZERO_PoW" for (192,7), which differs from the others'.
C3_PersonalizationChoice ==
    /\ default_personalization = ZcashPoW
    /\ default_personalization_zero = ZERO_PoW
    /\ default_personalization_zero # default_personalization
    /\ \A t \in Threads :
          /\ pc[t] \in {"update", "verify", "ret"} =>
                SubSeq(hstate[t].personal, 1, 8) = ExpectedPersonalization(arg[t])
          /\ trace[t] # <<>> =>
                /\ trace[t][1].op = "init"
                /\ trace[t][1].data = ExpectedPersonalization(arg[t])

C3_Witness ==
    \E t \in Threads :
        /\ pc[t] = "verify"
        /\ arg[t].variant = "EH_192_7"
        /\ arg[t].personalization = NULL
        /\ SubSeq(hstate[t].personal, 1, 8) = ZERO_PoW

\* C4: in every call that passes the length check the hash state is created and
\* initialised with (N, K, personalization), then updated once with exactly 140
\* header bytes, then handed to the verifier once; it is not used before it is
\* initialised, not updated after the verifier started, and does not outlive
\* the call.
C4_HashStateLifecycle ==
    \A t \in Threads :
        /\ pc[t] \in {"idle", "size", "pers", "init", "done"} => hstate[t] = Uninit
        /\ pc[t] \in {"idle", "size", "pers", "init"} => trace[t] = <<>>
        /\ pc[t] = "update" =>
              /\ trace[t] = SubSeq(ExpectedTrace(arg[t]), 1, 1)
              /\ hstate[t] = [ExpectedState(arg[t]) EXCEPT !.data = <<>>]
        /\ pc[t] = "verify" =>
              /\ trace[t] = SubSeq(ExpectedTrace(arg[t]), 1, 2)
              /\ hstate[t] = ExpectedState(arg[t])
        /\ pc[t] = "ret" =>
              /\ trace[t] = ExpectedTrace(arg[t])
              /\ hstate[t] = ExpectedState(arg[t])
        /\ (pc[t] = "done" /\ Len(arg[t].soln) = TableBytes(arg[t].variant)) =>
              trace[t] = ExpectedTrace(arg[t])

C4_Witness ==
    \E t \in Threads :
        /\ Finished(t)
        /\ trace[t] = ExpectedTrace(arg[t])
        /\ Len(arg[t].hdr) > 140
        /\ hstate[t] = Uninit

\* C5: the solution length each variant requires is 2^K * (N/(K+1) + 1) / 8 for
\* the N and K the same call passes to hash-state initialisation (68, 100, 400,
\* 1344), and that bit count is a multiple of 8.
C5_RequiredSizeIsDerived ==
    \A t \in Threads :
        pc[t] \notin {"idle", "size"} =>
            /\ DerivedBits(frame[t].n, frame[t].k) % 8 = 0
            /\ DerivedBits(frame[t].n, frame[t].k) \div 8 = TableBytes(arg[t].variant)
            /\ PassedSizeCheck(t) <=>
                  Len(arg[t].soln) = DerivedBits(frame[t].n, frame[t].k) \div 8
            /\ trace[t] # <<>> =>
                  /\ trace[t][1].n = frame[t].n
                  /\ trace[t][1].k = frame[t].k
                  /\ Len(arg[t].soln) = DerivedBits(trace[t][1].n, trace[t][1].k) \div 8

C5_Witness ==
    \E t \in Threads :
        /\ pc[t] = "update"
        /\ arg[t].variant = "EH_200_9"
        /\ Len(arg[t].soln) = 1344
        /\ trace[t][1].n = 200
        /\ trace[t][1].k = 9

\* C6: the result of a call depends on that call's inputs only: under every
\* interleaving with other calls, and after any earlier calls, it is the one
\* boolean the call returns when run alone, so calls with identical inputs
\* return identical results; the hash state a call reads is the one it prepared.
C6_CallsAreIndependent ==
    /\ \A t \in Threads :
          /\ Finished(t) =>
                /\ VerifyAlone(arg[t], oracle, default_personalization,
                               default_personalization_zero) = {result[t]}
          /\ pc[t] \in {"verify", "ret"} => hstate[StateAddr(t)] = ExpectedState(arg[t])
    /\ \A t, u \in Threads :
          (Finished(t) /\ Finished(u) /\ arg[t] = arg[u]) => result[t] = result[u]

C6_Witness ==
    \E t, u \in Threads :
        /\ t # u
        /\ Finished(t) /\ result[t] = TRUE
        /\ pc[u] = "verify"
        /\ arg[u].variant # arg[t].variant
        /\ hstate[StateAddr(u)] = ExpectedState(arg[u])

\* C7: when verify returns true, exchanging the two sibling index groups under
\* an internal node of the binding tree gives a solution on which verify returns
\* false for the same header and personalization.
C7_SiblingSwapRejected ==
    \A t \in Threads :
        (Finished(t) /\ result[t] = TRUE) =>
            \A idx \in {Unpack(arg[t].variant, arg[t].soln)} :
            \A node \in SwapNodes(TableK(arg[t].variant)) :
                VerifyAlone([arg[t] EXCEPT !.soln =
                                Pack(arg[t].variant, SwapSiblings(idx, node[1], node[2]))],
                            oracle, default_personalization,
                            default_personalization_zero) = {FALSE}

C7_Witness ==
    \E t \in Threads :
        /\ Finished(t)
        /\ arg[t].variant = "EH_96_5"
        /\ result[t] = FALSE
        /\ trace[t] # <<>>
        /\ \E node \in SwapNodes(5) :
              /\ node[1] = 3
              /\ arg[t].soln = SwapBlob("EH_96_5", LowBlob("EH_96_5"), node)
        /\ VerifyAlone([arg[t] EXCEPT !.soln = LowBlob("EH_96_5")], oracle,
                       default_personalization, default_personalization_zero) = {TRUE}

\* the index positions (source, target) tried when one index is overwritten
OverwritePairs(k) == {<<4, 2>>, <<2, 4>>, <<1, Pow2(k)>>, <<Pow2(k), 1>>}

\* C8: verify never returns true for a solution whose decoded 2^K indices hold
\* the same value at two positions; overwriting one index of an accepted
\* solution with another of its indices gives a solution verify rejects.
C8_DuplicateIndexRejected ==
    \A t \in Threads :
        (Finished(t) /\ result[t] = TRUE) =>
            \A idx \in {Unpack(arg[t].variant, arg[t].soln)} :
                /\ Cardinality({idx[i] : i \in 1..Len(idx)}) = Pow2(TableK(arg[t].variant))
                /\ \A ij \in OverwritePairs(TableK(arg[t].variant)) :
                      VerifyAlone([arg[t] EXCEPT !.soln =
                                      Pack(arg[t].variant, Overwrite(idx, ij[1], ij[2]))],
                                  oracle, default_personalization,
                                  default_personalization_zero) = {FALSE}

C8_Witness ==
    \E t \in Threads :
        /\ Finished(t)
        /\ result[t] = FALSE
        /\ arg[t].variant = "EH_144_5"
        /\ arg[t].soln = OverwriteBlob("EH_144_5", LowBlob("EH_144_5"), 4, 2)
        /\ oracle[OracleKey(ExpectedState(arg[t]))] = "zero"
        /\ OrderedGroups(Unpack("EH_144_5", arg[t].soln), 5)

\* C9: verify returns true only if the XOR of the digests of all 2^K decoded
\* indices, derived from the call's hash state, is zero in all N bits.
C9_RootXorZero ==
    \A t \in Threads :
        (Finished(t) /\ result[t] = TRUE) =>
            \A idx \in {Unpack(arg[t].variant, arg[t].soln)} :
            \A mode \in {oracle[OracleKey(ExpectedState(arg[t]))]} :
                \A j \in 1..(TableK(arg[t].variant) + 1) :
                    GroupXor(TableN(arg[t].variant), TableK(arg[t].variant), mode, idx,
                             TableK(arg[t].variant), 0, j) = 0

C9_Witness ==
    \E t \in Threads :
        /\ Finished(t)
        /\ result[t] = FALSE
        /\ arg[t].variant = "EH_192_7"
        /\ arg[t].soln = LowBlob("EH_192_7")
        /\ oracle[OracleKey(ExpectedState(arg[t]))] = "rootfail"
        /\ \A idx \in {Unpack("EH_192_7", arg[t].soln)} :
              /\ DistinctIndices(idx)
              /\ OrderedGroups(idx, 7)
              /\ \A l \in 1..6 : \A p \in 0..(Pow2(7 - l) - 1) : \A j \in 1..l :
                    GroupXor(192, 7, "rootfail", idx, l, p, j) = 0
              /\ GroupXor(192, 7, "rootfail", idx, 7, 0, 8) # 0

\* C10: no solution blob is accepted by two different variants, whatever
\* headers and personalization arguments the calls are given (also with an
\* override such as "ZcashPoW" passed to (192,7)): calls of two different
\* variants that both pass the length check hold blobs of different lengths,
\* and each variant rejects every length but its own.
C10_AtMostOneVariantAccepts ==
    /\ \A t, u \in Threads :
          (/\ PassedSizeCheck(t) /\ PassedSizeCheck(u)
           /\ arg[t].variant # arg[u].variant) =>
              Len(arg[t].soln) # Len(arg[u].soln)
    /\ \A t, u \in Threads :
          (/\ Finished(t) /\ Finished(u)
           /\ arg[t].soln = arg[u].soln
           /\ arg[t].variant # arg[u].variant) => ~(result[t] /\ result[u])
    /\ \A t \in Threads :
          (Finished(t) /\ result[t] = TRUE) =>
              \A w \in Variants \ {arg[t].variant} :
              \A h \in {Hdr0, Hdr1} : \A p \in {NULL, ZcashPoW, ZERO_PoW} :
                  VerifyAlone([variant |-> w, hdr |-> h, soln |-> arg[t].soln,
                               personalization |-> p],
                              oracle, default_personalization,
                              default_personalization_zero) = {FALSE}

C10_Witness ==
    \E t, u \in Threads :
        /\ Finished(t) /\ Finished(u)
        /\ arg[t].soln = arg[u].soln
        /\ arg[t].variant = "EH_96_5" /\ result[t] = TRUE
        /\ arg[u].variant = "EH_192_7" /\ arg[u].personalization = ZcashPoW
        /\ result[u] = FALSE

====
